---------------------------- MODULE Spec2Model ----------------------------
(***************************************************************************)
(* A model of api/index.py: the Flask handlers generate, humanize, score   *)
(* and prepare_docx, the model registries they resolve against, the        *)
(* outbound calls they make and the responses they return.                 *)
(*                                                                         *)
(* A request occupies a slot from its arrival to the moment its response   *)
(* has been sent.  A handler runs as a sequence of steps; a step ends      *)
(* where the handler reads the module-level MODEL_REGISTRY or waits for an *)
(* outbound call, so that handlers of different slots interleave there.    *)
(***************************************************************************)
EXTENDS Integers, Sequences, FiniteSets, TLC

\* The number of request slots (requests in flight at once under SpecConc).
MaxReq == 2

Slots == 1..MaxReq

(***************************************************************************)
(* JSON values, as request.get_json() hands them to the handlers.  A value *)
(* is a record of its Python type t and a text v; Absent marks a key the   *)
(* object does not carry.                                                  *)
(***************************************************************************)
Absent  == [t |-> "absent", v |-> ""]
JNull   == [t |-> "null", v |-> ""]
JTrue   == [t |-> "bool", v |-> "true"]
JFalse  == [t |-> "bool", v |-> "false"]
JStr(s) == [t |-> "str", v |-> s]
JNum(s) == [t |-> "num", v |-> s]
\* a non-empty JSON array and a JSON object, e.g. ["pro"] and {"tier": "pro"}
JList   == [t |-> "list", v |-> "pro"]
JDict   == [t |-> "dict", v |-> ""]

\* Python's truth value of a JSON value (`not prompt`, `if footer2_page`)
Truthy(j) ==
    ~ \/ j.t \in {"absent", "null"}
      \/ j.t = "str" /\ j.v = ""
      \/ j.t = "bool" /\ j.v = "false"
      \/ j.t = "num" /\ j.v = "0"

\* dict.get(key, default) on a parsed object whose key holds j (or is Absent)
Get(j, default) == IF j = Absent THEN default ELSE j

\* lists and dicts are unhashable: `x in some_dict` raises TypeError for them
Hashable(j) == j.t \notin {"list", "dict"}

(***************************************************************************)
(* The registries.  A dict keeps its keys in insertion order, so a         *)
(* registry is a sequence of key/id entries.                               *)
(***************************************************************************)
GenerateRegistry ==
    << [key |-> "flash", id |-> "models/gemini-2.5-flash"],
       [key |-> "pro",   id |-> "models/gemini-3-flash-preview"] >>

HumanizeRegistry ==
    << [key |-> "flash", id |-> "models/gemini-2.5-flash"],
       [key |-> "pro",   id |-> "models/gemini-3-pro-preview"] >>

\* list(registry.keys())
Keys(reg) == [i \in 1..Len(reg) |-> reg[i].key]

\* `j in registry` for a hashable j
HasKey(reg, j) == j.t = "str" /\ \E i \in 1..Len(reg) : reg[i].key = j.v

\* registry[j]
Lookup(reg, j) == reg[CHOOSE i \in 1..Len(reg) : reg[i].key = j.v].id

\* a faulty variant: the fallback aimed at the model that failed
GenerateFallbackModelSame == "models/gemini-3-flash-preview"
\* the model generate falls back to
GenerateFallbackModel == "models/gemini-2.5-flash"

\* the model humanize falls back to
HumanizeFallbackModel == "models/gemini-2.5-flash"

\* a faulty variant: every key is given the fallback
IsHighTierAlways(key) == TRUE
\* `if ai_model_key == "pro"` in the except clauses
IsHighTier(key) == key = JStr("pro")

(***************************************************************************)
(* Requests.  A body is "none" (no body, not JSON, null or another falsy   *)
(* non-object value: get_json(silent=True) gives None or a falsy value     *)
(* without a .get), "array" (a non-empty JSON array holding none of the    *)
(* field names, e.g. [1]), "empty_object" ({}) or "object" (a non-empty    *)
(* object).  The nested objects footer1 and footer2 are flattened into     *)
(* f1_align, f2_align, page_num and format; margins, header and cover_page *)
(* are left out of the request (absent, so their defaults apply).          *)
(***************************************************************************)
NoBody(kind) ==
    [kind |-> kind, prompt |-> Absent, content |-> Absent, text |-> Absent,
     ai_model |-> Absent, constraints |-> Absent, f1_align |-> Absent,
     f2_align |-> Absent, page_num |-> Absent, format |-> Absent]

ModelKeyValues ==
    {Absent, JNull, JStr("flash"), JStr("pro"), JStr("ultra"), JNum("7"),
     JList, JDict}

AlignValues == {Absent, JStr("left"), JStr("right"), JStr("center")}

GenerateBodies ==
    {NoBody("none"), NoBody("array"), NoBody("empty_object")} \cup
    {[NoBody("object") EXCEPT !.prompt = p, !.ai_model = m] :
        p \in {Absent, JStr(""), JStr("hi")}, m \in ModelKeyValues}

HumanizeBodies ==
    {NoBody("none"), NoBody("array"), NoBody("empty_object")} \cup
    {[NoBody("object") EXCEPT !.content = c, !.constraints = k, !.ai_model = m] :
        c \in {Absent, JStr("draft")}, k \in {Absent, JDict, JStr("shorter")},
        m \in ModelKeyValues}

ScoreBodies ==
    {NoBody("none"), NoBody("array"), NoBody("empty_object")} \cup
    {[NoBody("object") EXCEPT !.text = t, !.prompt = p] :
        t \in {Absent, JStr(""), JStr("essay")}, p \in {Absent, JStr("hi")}}

PrepareDocxBodies ==
    {NoBody("none"), NoBody("array"), NoBody("empty_object")} \cup
    {[NoBody("object") EXCEPT !.text = t, !.f1_align = a, !.f2_align = b,
                              !.page_num = p, !.format = f] :
        t \in {Absent, JStr("essay"), JNum("7")},
        a \in AlignValues, b \in AlignValues,
        p \in {Absent, JTrue, JFalse},
        f \in {Absent, JNum("2"), JStr("roman")}}

Requests ==
    {[ep |-> "generate", body |-> b] : b \in GenerateBodies} \cup
    {[ep |-> "humanize", body |-> b] : b \in HumanizeBodies} \cup
    {[ep |-> "score", body |-> b] : b \in ScoreBodies} \cup
    {[ep |-> "prepare_docx", body |-> b] : b \in PrepareDocxBodies}

\* the generate and humanize requests sent concurrently under SpecConc
ConcRequests ==
    {[ep |-> "generate",
      body |-> [NoBody("object") EXCEPT !.prompt = JStr("hi"), !.ai_model = m]] :
        m \in {JStr("flash"), JStr("pro"), JStr("ultra")}} \cup
    {[ep |-> "humanize",
      body |-> [NoBody("object") EXCEPT !.content = JStr("draft"), !.ai_model = m]] :
        m \in {Absent, JStr("pro"), JStr("ultra")}}

NoRequest == [ep |-> "idle", body |-> NoBody("none")]

(***************************************************************************)
(* Responses, handler locals, outbound calls, documents.                   *)
(***************************************************************************)
Resp(status, error) ==
    [status |-> status, error |-> error, model_used |-> "",
     allowed_values |-> <<>>, score |-> -1]

NoResponse == Resp(0, "")

\* Flask answers an exception no handler caught with 500
InternalServerError == Resp(500, "Internal Server Error")

NoLocals ==
    [ai_model_key |-> Absent, registry |-> <<>>, footer1_align |-> Absent,
     footer2_align |-> Absent, footer2_page |-> Absent]

NoDocx == [footer1 |-> "none", footer2 |-> "none", saved |-> FALSE]

GenaiCall(model) == [api |-> "genai", model |-> model, outcome |-> "pending", k |-> -1]

SaplingCall == [api |-> "sapling", model |-> "", outcome |-> "pending", k |-> -1]

VARIABLES
    MODEL_REGISTRY,  \* the module-level registry
    request,         \* per slot: the request being handled
    pc,              \* per slot: where its handler stands
    locals,          \* per slot: the handler's local variables
    calls,           \* per slot: the outbound calls made, in order
    response,        \* per slot: the response returned
    docx             \* per slot: the document prepare_docx assembles

vars == <<MODEL_REGISTRY, request, pc, locals, calls, response, docx>>

Init ==
    /\ MODEL_REGISTRY = GenerateRegistry
    /\ request = [r \in Slots |-> NoRequest]
    /\ pc = [r \in Slots |-> "idle"]
    /\ locals = [r \in Slots |-> NoLocals]
    /\ calls = [r \in Slots |-> <<>>]
    /\ response = [r \in Slots |-> NoResponse]
    /\ docx = [r \in Slots |-> NoDocx]

\* the handler of slot r returns resp
Return(r, resp) ==
    /\ response' = [response EXCEPT ![r] = resp]
    /\ pc' = [pc EXCEPT ![r] = "done"]

\* the last call of slot r ends with outcome o
EndCall(r, o) == [calls EXCEPT ![r][Len(calls[r])].outcome = o]

\* a request arrives at slot r
Receive(r, req) ==
    /\ pc[r] = "idle"
    /\ request' = [request EXCEPT ![r] = req]
    /\ pc' = [pc EXCEPT ![r] = "start"]
    /\ UNCHANGED <<MODEL_REGISTRY, locals, calls, response, docx>>

\* the response has been sent; the slot is free again
Close(r) ==
    /\ pc[r] = "done"
    /\ request' = [request EXCEPT ![r] = NoRequest]
    /\ pc' = [pc EXCEPT ![r] = "idle"]
    /\ locals' = [locals EXCEPT ![r] = NoLocals]
    /\ calls' = [calls EXCEPT ![r] = <<>>]
    /\ response' = [response EXCEPT ![r] = NoResponse]
    /\ docx' = [docx EXCEPT ![r] = NoDocx]
    /\ UNCHANGED MODEL_REGISTRY

(***************************************************************************)
(* generate                                                                *)
(***************************************************************************)
\* the 400 naming the registry's keys
InvalidModel(reg) ==
    [Resp(400, "Invalid 'ai_model'") EXCEPT !.allowed_values = Keys(reg)]

\* from get_json to the registry check
GenerateValidate(r) ==
    LET data         == request[r].body
        prompt       == Get(data.prompt, JNull)
        ai_model_key == Get(data.ai_model, JNull)
    IN
    /\ pc[r] = "start" /\ request[r].ep = "generate"
    /\ UNCHANGED <<MODEL_REGISTRY, request, calls, docx>>
    /\ IF data.kind \in {"none", "empty_object"}
       THEN Return(r, Resp(400, "Request body must be JSON")) /\ UNCHANGED locals
       ELSE IF data.kind = "array"            \* data.get: AttributeError
       THEN Return(r, InternalServerError) /\ UNCHANGED locals
       ELSE IF ~Truthy(prompt)
       THEN Return(r, Resp(400, "Missing 'prompt'")) /\ UNCHANGED locals
       ELSE IF ~Hashable(ai_model_key)        \* `not in`: TypeError
       THEN Return(r, InternalServerError) /\ UNCHANGED locals
       ELSE IF ~HasKey(MODEL_REGISTRY, ai_model_key)
       THEN Return(r, InvalidModel(MODEL_REGISTRY)) /\ UNCHANGED locals
       ELSE /\ locals' = [locals EXCEPT ![r].ai_model_key = ai_model_key]
            /\ pc' = [pc EXCEPT ![r] = "resolve"]
            /\ UNCHANGED response

\* MODEL_REGISTRY[ai_model_key] and the primary generate_content call
GeneratePrimary(r) ==
    /\ pc[r] = "resolve" /\ request[r].ep = "generate"
    /\ calls' = [calls EXCEPT ![r] =
                    <<GenaiCall(Lookup(MODEL_REGISTRY, locals[r].ai_model_key))>>]
    /\ pc' = [pc EXCEPT ![r] = "primary"]
    /\ UNCHANGED <<MODEL_REGISTRY, request, locals, response, docx>>

\* the primary call returns (result.text is readable) or raises
GeneratePrimaryReturn(r) ==
    /\ pc[r] = "primary" /\ request[r].ep = "generate"
    /\ UNCHANGED <<MODEL_REGISTRY, request, locals, docx>>
    /\ \/ /\ calls' = EndCall(r, "ok")
          /\ Return(r, [Resp(200, "") EXCEPT
                            !.model_used = locals[r].ai_model_key.v])
       \/ IF IsHighTier(locals[r].ai_model_key)
          THEN /\ calls' = [EndCall(r, "raised") EXCEPT
                               ![r] = Append(@, GenaiCall(GenerateFallbackModel))]
               /\ pc' = [pc EXCEPT ![r] = "fallback"]
               /\ UNCHANGED response
          ELSE /\ calls' = EndCall(r, "raised")
               /\ Return(r, Resp(500, "Generation failed"))

\* a faulty variant: a failed fallback is tried once more
GenerateFallbackReturnRetrying(r) ==
    /\ pc[r] = "fallback" /\ request[r].ep = "generate"
    /\ UNCHANGED <<MODEL_REGISTRY, request, locals, docx>>
    /\ \/ /\ calls' = EndCall(r, "ok")
          /\ Return(r, [Resp(200, "") EXCEPT !.model_used = "flash_fallback"])
       \/ IF Len(calls[r]) < 3
          THEN /\ calls' = [EndCall(r, "raised") EXCEPT
                               ![r] = Append(@, GenaiCall(GenerateFallbackModel))]
               /\ UNCHANGED <<pc, response>>
          ELSE /\ calls' = EndCall(r, "raised")
               /\ Return(r, InternalServerError)
\* the fallback call returns, or raises out of the except clause
GenerateFallbackReturn(r) ==
    /\ pc[r] = "fallback" /\ request[r].ep = "generate"
    /\ UNCHANGED <<MODEL_REGISTRY, request, locals, docx>>
    /\ \/ /\ calls' = EndCall(r, "ok")
          /\ Return(r, [Resp(200, "") EXCEPT !.model_used = "flash_fallback"])
       \/ /\ calls' = EndCall(r, "raised")
          /\ Return(r, InternalServerError)

generate(r) ==
    \/ GenerateValidate(r)
    \/ GeneratePrimary(r)
    \/ GeneratePrimaryReturn(r)
    \/ GenerateFallbackReturn(r)

(***************************************************************************)
(* humanize                                                                *)
(***************************************************************************)
\* a faulty variant: the assignment under a `global` declaration
HumanizeRegistryBindingGlobal(global) ==
    [global |-> HumanizeRegistry, local |-> HumanizeRegistry]
\* `MODEL_REGISTRY = {...}` inside humanize binds a name local to the call:
\* the module-level registry keeps the value it has
HumanizeRegistryBinding(global) ==
    [global |-> global, local |-> HumanizeRegistry]

\* from get_json to the registry check.  build_editor_prompt, called next,
\* formats its five arguments into a template and cannot raise.
HumanizeValidate(r) ==
    LET data         == request[r].body
        constraints  == Get(data.constraints, JDict)
        ai_model_key == Get(data.ai_model, JStr("flash"))
        bound        == HumanizeRegistryBinding(MODEL_REGISTRY)
    IN
    /\ pc[r] = "start" /\ request[r].ep = "humanize"
    /\ UNCHANGED <<request, calls, docx>>
    /\ IF data.kind \in {"none", "empty_object", "array"} \/ data.content = Absent
       THEN /\ Return(r, Resp(400, "Missing 'content'"))
            /\ UNCHANGED <<MODEL_REGISTRY, locals>>
       ELSE IF constraints.t # "dict"         \* constraints.get: AttributeError
       THEN /\ Return(r, InternalServerError)
            /\ UNCHANGED <<MODEL_REGISTRY, locals>>
       ELSE /\ MODEL_REGISTRY' = bound.global
            /\ IF ~Hashable(ai_model_key)     \* `not in`: TypeError
               THEN Return(r, InternalServerError) /\ UNCHANGED locals
               ELSE IF ~HasKey(bound.local, ai_model_key)
               THEN Return(r, InvalidModel(bound.local)) /\ UNCHANGED locals
               ELSE /\ locals' = [locals EXCEPT ![r].ai_model_key = ai_model_key,
                                                ![r].registry = bound.local]
                    /\ pc' = [pc EXCEPT ![r] = "resolve"]
                    /\ UNCHANGED response

\* build_editor_prompt, MODEL_REGISTRY[ai_model_key] and the primary call
HumanizePrimary(r) ==
    /\ pc[r] = "resolve" /\ request[r].ep = "humanize"
    /\ calls' = [calls EXCEPT ![r] =
                    <<GenaiCall(Lookup(locals[r].registry, locals[r].ai_model_key))>>]
    /\ pc' = [pc EXCEPT ![r] = "primary"]
    /\ UNCHANGED <<MODEL_REGISTRY, request, locals, response, docx>>

\* the primary call returns (result.text is readable) or raises
HumanizePrimaryReturn(r) ==
    /\ pc[r] = "primary" /\ request[r].ep = "humanize"
    /\ UNCHANGED <<MODEL_REGISTRY, request, locals, docx>>
    /\ \/ /\ calls' = EndCall(r, "ok")
          /\ Return(r, Resp(200, ""))
       \/ IF IsHighTier(locals[r].ai_model_key)
          THEN /\ calls' = [EndCall(r, "raised") EXCEPT
                               ![r] = Append(@, GenaiCall(HumanizeFallbackModel))]
               /\ pc' = [pc EXCEPT ![r] = "fallback"]
               /\ UNCHANGED response
          ELSE /\ calls' = EndCall(r, "raised")
               /\ Return(r, Resp(500, "Humanization failed"))

\* the fallback call returns, or raises out of the except clause
HumanizeFallbackReturn(r) ==
    /\ pc[r] = "fallback" /\ request[r].ep = "humanize"
    /\ UNCHANGED <<MODEL_REGISTRY, request, locals, docx>>
    /\ \/ /\ calls' = EndCall(r, "ok")
          /\ Return(r, Resp(200, ""))
       \/ /\ calls' = EndCall(r, "raised")
          /\ Return(r, InternalServerError)

humanize(r) ==
    \/ HumanizeValidate(r)
    \/ HumanizePrimary(r)
    \/ HumanizePrimaryReturn(r)
    \/ HumanizeFallbackReturn(r)

(***************************************************************************)
(* score.  raw_score is a Python float, an IEEE 754 double: the literal in *)
(* the upstream JSON is rounded to the nearest double, raw_score * 100 is  *)
(* rounded again, and int() truncates.  Doubles are records [m, e] of the  *)
(* mantissa's bits, least significant first, and the exponent of its last  *)
(* bit: the value is m * 2^e.                                              *)
(***************************************************************************)
MantissaBits == 53

RECURSIVE Pow2(_)
Pow2(n) == IF n = 0 THEN 1 ELSE 2 * Pow2(n - 1)

\* 2^i mod den, by repeated squaring
RECURSIVE Pow2Mod(_, _)
Pow2Mod(i, den) ==
    IF i = 0 THEN 1 % den
    ELSE IF i % 2 = 0 THEN LET h == Pow2Mod(i \div 2, den) IN (h * h) % den
    ELSE (2 * Pow2Mod(i - 1, den)) % den

\* the bits of a natural below 2^10, least significant first
NatBits(n) == [i \in 1..10 |-> (n \div Pow2(i - 1)) % 2]

Bit(b, i) == IF i >= 1 /\ i <= Len(b) THEN b[i] ELSE 0

\* the number whose bits are those of b from position lo upwards
BitsNatFrom(b, lo) ==
    LET RECURSIVE Go(_)
        Go(i) == IF i > Len(b) THEN 0 ELSE b[i] + 2 * Go(i + 1)
    IN Go(lo)

TopBit(b) ==
    LET S == {i \in 1..Len(b) : b[i] = 1}
    IN  IF S = {} THEN 0 ELSE CHOOSE i \in S : \A j \in S : j <= i

\* b without its leading zeros
Trim(b) == SubSeq(b, 1, TopBit(b))

\* the carry into position i of a + b
CarryIn(a, b, i) ==
    \E j \in 1..(i - 1) :
        /\ Bit(a, j) = 1 /\ Bit(b, j) = 1
        /\ \A l \in (j + 1)..(i - 1) : Bit(a, l) + Bit(b, l) >= 1

AddBits(a, b) ==
    LET n == (IF Len(a) > Len(b) THEN Len(a) ELSE Len(b)) + 1
    IN  [i \in 1..n |->
            (Bit(a, i) + Bit(b, i) + (IF CarryIn(a, b, i) THEN 1 ELSE 0)) % 2]

Shl(b, n) == [i \in 1..n |-> 0] \o b

\* a * k for a natural k below 2^10: a shifted to each set bit of k, summed
MulBits(a, k) ==
    LET kb == NatBits(k)
        RECURSIVE Acc(_)
        Acc(i) == IF i > Len(kb) THEN <<>>
                  ELSE IF kb[i] = 1 THEN AddBits(Shl(a, i - 1), Acc(i + 1))
                  ELSE Acc(i + 1)
    IN  Acc(1)

\* b * 2^e rounded to MantissaBits bits, ties to even
RoundBits(b, e) ==
    LET t == Trim(b)
        d == Len(t) - MantissaBits
    IN  IF d <= 0 THEN [m |-> t, e |-> e]
        ELSE LET kept   == SubSeq(t, d + 1, Len(t))
                 guard  == t[d]
                 sticky == \E i \in 1..(d - 1) : t[i] = 1
                 up     == guard = 1 /\ (sticky \/ kept[1] = 1)
                 r      == IF up THEN Trim(AddBits(kept, <<1>>)) ELSE kept
             IN  IF Len(r) > MantissaBits
                 THEN [m |-> SubSeq(r, 2, Len(r)), e |-> e + d + 1]
                 ELSE [m |-> r, e |-> e + d]

\* the double json.loads gives for the decimal num/den: num/den to
\* MantissaBits + 9 binary places and a sticky bit for the rest, rounded
FloatOfRatio(num, den) ==
    LET n    == MantissaBits + 9
        rem0 == num % den
        frac == [j \in 1..n |->
                    LET i == n + 1 - j
                    IN  IF 2 * ((rem0 * Pow2Mod(i - 1, den)) % den) >= den
                        THEN 1 ELSE 0]
        sticky == IF (rem0 * Pow2Mod(n, den)) % den # 0 THEN 1 ELSE 0
    IN  RoundBits(<<sticky>> \o frac \o NatBits(num \div den), -(n + 1))

\* x * k in double arithmetic
FloatMulNat(x, k) == RoundBits(MulBits(x.m, k), x.e)

\* int(x) for x >= 0
IntOfFloat(x) ==
    IF x.e >= 0 THEN BitsNatFrom(Shl(x.m, x.e), 1)
    ELSE BitsNatFrom(x.m, 1 - x.e)

\* the upstream scores: the probabilities 0.00, 0.01, ..., 1.00, in hundredths
Hundredths == 0..100

\* int(raw_score * 100) for the upstream score k/100
AiScore == [k \in Hundredths |-> IntOfFloat(FloatMulNat(FloatOfRatio(k, 100), 100))]

(***************************************************************************)
(* What the detection backend does with the one request: "neterr" (post    *)
(* raises: connection, timeout), "httperr" (raise_for_status raises),      *)
(* "badjson" (the body is not JSON: response.json() raises requests'       *)
(* JSONDecodeError, a RequestException), "nonobject" (the body is a JSON   *)
(* array: result.get raises AttributeError), "noscore", "nullscore" (the   *)
(* object has no score, or null), "strscore" (the score is a non-numeric   *)
(* string: int() raises ValueError), "num" (the score is the number k/100).*)
(***************************************************************************)
SaplingOutcomes ==
    {"neterr", "httperr", "badjson", "nonobject", "noscore", "nullscore",
     "strscore", "num"}

\* a faulty variant: a missing score read as 0
ScoreResponseDefaulting(outcome, k) ==
    IF outcome \in {"neterr", "httperr", "badjson"}
    THEN Resp(500, "Scoring failed")
    ELSE IF outcome \in {"nonobject", "strscore"}
    THEN InternalServerError
    ELSE IF outcome \in {"noscore", "nullscore"}
    THEN [Resp(200, "") EXCEPT !.score = 0]
    ELSE [Resp(200, "") EXCEPT !.score = AiScore[k]]
\* the response of score for an upstream outcome
ScoreResponse(outcome, k) ==
    IF outcome \in {"neterr", "httperr", "badjson"}
    THEN Resp(500, "Scoring failed")
    ELSE IF outcome \in {"nonobject", "strscore"}
    THEN InternalServerError
    ELSE IF outcome \in {"noscore", "nullscore"}
    THEN Resp(502, "Invalid response from Sapling")
    ELSE [Resp(200, "") EXCEPT !.score = AiScore[k]]

\* from get_json to requests.post
ScoreValidate(r) ==
    LET data == request[r].body
    IN
    /\ pc[r] = "start" /\ request[r].ep = "score"
    /\ UNCHANGED <<MODEL_REGISTRY, request, locals, docx>>
    /\ IF data.kind \in {"none", "empty_object", "array"} \/ data.text = Absent
       THEN Return(r, Resp(400, "Missing 'text'")) /\ UNCHANGED calls
       ELSE /\ calls' = [calls EXCEPT ![r] = <<SaplingCall>>]
            /\ pc' = [pc EXCEPT ![r] = "upstream"]
            /\ UNCHANGED response

\* the backend's answer, to the return
ScoreReturn(r) ==
    /\ pc[r] = "upstream" /\ request[r].ep = "score"
    /\ UNCHANGED <<MODEL_REGISTRY, request, locals, docx>>
    /\ \E o \in SaplingOutcomes :
       \E k \in IF o = "num" THEN Hundredths ELSE {-1} :
          /\ calls' = [EndCall(r, o) EXCEPT ![r][Len(calls[r])].k = k]
          /\ Return(r, ScoreResponse(o, k))

score(r) ==
    \/ ScoreValidate(r)
    \/ ScoreReturn(r)

(***************************************************************************)
(* prepare_docx                                                            *)
(***************************************************************************)
\* int(x) succeeds on a number (and on the default 1)
IntParses(j) == j.t \in {"absent", "num", "bool"}

\* footer1_align after the collision rule
CollisionRule(footer1_align, footer2_align, footer2_page) ==
    IF Truthy(footer2_page) /\ footer2_align = footer1_align
    THEN IF footer2_align = JStr("right") THEN JStr("left") ELSE JStr("right")
    ELSE footer1_align

\* the alignment a footer paragraph gets
FooterAlignment(align) == IF align = JStr("left") THEN "LEFT" ELSE "RIGHT"

\* from get_json to the collision rule
PrepareDocxParse(r) ==
    LET data          == request[r].body
        footer1_align == Get(data.f1_align, JStr("left"))
        footer2_page  == Get(data.page_num, JFalse)
        footer2_align == Get(data.f2_align, JStr("right"))
    IN
    /\ pc[r] = "start" /\ request[r].ep = "prepare_docx"
    /\ UNCHANGED <<MODEL_REGISTRY, request, calls, docx>>
    /\ IF data.kind \in {"none", "array"}     \* data.get: AttributeError
       THEN Return(r, InternalServerError) /\ UNCHANGED locals
       ELSE IF ~IntParses(data.format)        \* int(): ValueError
       THEN Return(r, InternalServerError) /\ UNCHANGED locals
       ELSE /\ locals' = [locals EXCEPT
                ![r].footer1_align =
                    CollisionRule(footer1_align, footer2_align, footer2_page),
                ![r].footer2_align = footer2_align,
                ![r].footer2_page = footer2_page]
            /\ pc' = [pc EXCEPT ![r] = "build"]
            /\ UNCHANGED response

\* from Document() to the return: the footers, the body text, the save
PrepareDocxBuild(r) ==
    LET text == Get(request[r].body.text, JStr(""))
        built == [footer1 |-> FooterAlignment(locals[r].footer1_align),
                  footer2 |-> IF Truthy(locals[r].footer2_page)
                              THEN FooterAlignment(locals[r].footer2_align)
                              ELSE "none",
                  saved |-> FALSE]
    IN
    /\ pc[r] = "build" /\ request[r].ep = "prepare_docx"
    /\ UNCHANGED <<MODEL_REGISTRY, request, locals, calls>>
    /\ IF text.t # "str"                      \* text.split: AttributeError
       THEN /\ docx' = [docx EXCEPT ![r] = built]
            /\ Return(r, InternalServerError)
       ELSE /\ docx' = [docx EXCEPT ![r] = [built EXCEPT !.saved = TRUE]]
            /\ Return(r, Resp(200, ""))

prepare_docx(r) ==
    \/ PrepareDocxParse(r)
    \/ PrepareDocxBuild(r)

(***************************************************************************)
(* Spec: the server handling one request after another, over every request *)
(* of Requests.  SpecConc: MaxReq generate and humanize requests in flight *)
(* at once, their steps interleaved.                                       *)
(***************************************************************************)
Next ==
    \/ \E req \in Requests : Receive(1, req)
    \/ generate(1)
    \/ humanize(1)
    \/ score(1)
    \/ prepare_docx(1)
    \/ Close(1)

Spec == Init /\ [][Next]_vars

NextConc ==
    \E r \in Slots :
        \/ \E req \in ConcRequests : Receive(r, req)
        \/ generate(r)
        \/ humanize(r)
        \/ Close(r)

SpecConc == Init /\ [][NextConc]_vars

(***************************************************************************)
(* The properties.                                                         *)
(***************************************************************************)
Body(r) == request[r].body

\* the model key a handler works with: data.get("ai_model") in generate,
\* data.get("ai_model", "flash") in humanize
ModelKey(r) ==
    IF request[r].ep = "generate" THEN Get(Body(r).ai_model, JNull)
    ELSE Get(Body(r).ai_model, JStr("flash"))

\* a generate request with a non-empty prompt and the model key `key`
ValidGenerate(r, key) ==
    /\ request[r].ep = "generate" /\ Body(r).kind = "object"
    /\ Truthy(Body(r).prompt) /\ Body(r).ai_model = JStr(key)

\* a generate or humanize request with the model key "pro" whose primary
\* call has failed
ProPrimaryFailed(r) ==
    /\ request[r].ep \in {"generate", "humanize"}
    /\ ModelKey(r) = JStr("pro")
    /\ Len(calls[r]) >= 1 /\ calls[r][1].outcome = "raised"

\* C1: every generate or humanize request whose model key is not a key of
\* the endpoint's registry, whatever else the body holds and whatever JSON
\* value the key is, is answered 400 with allowed_values listing exactly the
\* registry's keys.
C1_InvalidKeyAnswered400WithKeys ==
    \A r \in Slots :
        ( /\ pc[r] = "done"
          /\ request[r].ep \in {"generate", "humanize"}
          /\ Body(r).kind = "object"
          /\ ModelKey(r) \notin {JStr("flash"), JStr("pro")} )
        => /\ response[r].status = 400
           /\ Len(response[r].allowed_values) = 2
           /\ {response[r].allowed_values[i] : i \in 1..2} = {"flash", "pro"}

\* C2: a generate request with a non-empty prompt and the model key "flash"
\* makes exactly one backend call, whether it succeeds or fails, and never a
\* fallback call; on success the response is 200 with model_used "flash", on
\* failure it is 500.
C2_FlashOneInvocation ==
    \A r \in Slots :
        ValidGenerate(r, "flash")
        => /\ Len(calls[r]) <= 1
           /\ pc[r] = "done" =>
                /\ Len(calls[r]) = 1
                /\ calls[r][1].outcome \in {"ok", "raised"}
                /\ calls[r][1].outcome = "ok" =>
                       response[r].status = 200 /\ response[r].model_used = "flash"
                /\ calls[r][1].outcome = "raised" => response[r].status = 500

C2_Witness ==
    \E r \in Slots :
        /\ ValidGenerate(r, "flash") /\ pc[r] = "done"
        /\ Len(calls[r]) = 1 /\ calls[r][1].outcome = "raised"
        /\ response[r].status = 500

\* C3: when the primary call of a generate or humanize request with the
\* model key "pro" fails, exactly one fallback call is made, to the low-tier
\* model, and only after the primary call has failed; when the fallback
\* succeeds the response is 200 and, for generate, model_used is
\* "flash_fallback".
C3_ProOneFallback ==
    \A r \in Slots :
        /\ ProPrimaryFailed(r) =>
            /\ Len(calls[r]) = 2
            /\ calls[r][2].model = "models/gemini-2.5-flash"
            /\ calls[r][2].outcome = "ok" =>
                /\ pc[r] = "done" /\ response[r].status = 200
                /\ request[r].ep = "generate" =>
                       response[r].model_used = "flash_fallback"
        /\ Len(calls[r]) >= 2 => calls[r][1].outcome = "raised"
        /\ Cardinality({i \in 1..Len(calls[r]) : calls[r][i].outcome = "pending"}) <= 1

C3_Witness ==
    \E r \in Slots :
        /\ ProPrimaryFailed(r) /\ request[r].ep = "generate"
        /\ Len(calls[r]) = 2 /\ calls[r][2].outcome = "ok"
        /\ response[r].model_used = "flash_fallback"

\* C4: when both the primary and the fallback call of a generate or humanize
\* request with the model key "pro" fail, the response is 500 and the
\* request has made exactly two backend calls: nothing is retried further.
C4_ProBothFail500 ==
    \A r \in Slots :
        /\ Len(calls[r]) <= 2
        /\ ( /\ ProPrimaryFailed(r)
             /\ Len(calls[r]) >= 2 /\ calls[r][2].outcome = "raised" )
           => /\ pc[r] = "done" /\ response[r].status = 500
              /\ Len(calls[r]) = 2

C4_Witness ==
    \E r \in Slots :
        /\ ProPrimaryFailed(r) /\ request[r].ep = "humanize"
        /\ Len(calls[r]) = 2 /\ calls[r][2].outcome = "raised"
        /\ pc[r] = "done" /\ response[r].status = 500

Opposite(side) == IF side = "LEFT" THEN "RIGHT" ELSE "LEFT"

\* C5: in prepare_docx, when footer2 carries the page number and both
\* footers request the same alignment, footer1 is placed on the side
\* opposite to footer2; otherwise footer1's requested alignment is left
\* unchanged.
C5_CollisionFlipsFooter1 ==
    \A r \in Slots :
        (request[r].ep = "prepare_docx" /\ pc[r] = "build")
        => LET requested1 == Get(Body(r).f1_align, JStr("left"))
               requested2 == Get(Body(r).f2_align, JStr("right"))
               page       == Get(Body(r).page_num, JFalse)
           IN  IF Truthy(page) /\ requested1 = requested2
               THEN FooterAlignment(locals[r].footer1_align)
                        = Opposite(FooterAlignment(requested2))
               ELSE locals[r].footer1_align = requested1

\* a score request that carries a text field
ScoreWithText(r) ==
    /\ request[r].ep = "score" /\ Body(r).kind = "object"
    /\ Body(r).text # Absent

\* C6: a score request that carries a text field makes exactly one call to
\* the detection backend and never retries it; a network or HTTP error
\* gives 500 or 502, an upstream response without a score field gives 502,
\* and neither gives 200.
C6_ScoreOneCallNoRetry ==
    \A r \in Slots :
        ScoreWithText(r)
        => /\ Len(calls[r]) <= 1
           /\ pc[r] \in {"upstream", "done"} =>
                  Len(calls[r]) = 1 /\ calls[r][1].api = "sapling"
           /\ pc[r] = "done" =>
                /\ calls[r][1].outcome \in {"neterr", "httperr"} =>
                       response[r].status \in {500, 502}
                /\ calls[r][1].outcome = "noscore" => response[r].status = 502

C6_Witness ==
    \E r \in Slots :
        /\ ScoreWithText(r) /\ pc[r] = "done"
        /\ Len(calls[r]) = 1 /\ calls[r][1].outcome = "noscore"
        /\ response[r].status = 502

\* C7: every 200 response of score carries an integer score in 0..100 that
\* equals the upstream fractional score multiplied by 100 and truncated
\* towards zero, for every score the upstream may return.
C7_ScoreIsTruncatedPercent ==
    \A r \in Slots :
        (request[r].ep = "score" /\ pc[r] = "done" /\ response[r].status = 200)
        => /\ response[r].score \in 0..100
           /\ response[r].score = (calls[r][1].k * 100) \div 100

\* a request whose body is missing or not JSON, or lacks or malforms the
\* field its endpoint reads
Malformed(r) ==
    \/ request[r].ep # "idle" /\ Body(r).kind = "none"
    \/ request[r].ep = "generate" /\ ~Truthy(Body(r).prompt)
    \/ request[r].ep = "humanize" /\
          (Body(r).content = Absent \/ Body(r).constraints \notin {Absent, JDict})
    \/ request[r].ep = "score" /\ Body(r).text = Absent
    \/ request[r].ep = "prepare_docx" /\ Get(Body(r).text, JNull).t # "str"

\* C8: on every POST endpoint a request whose body is missing or not JSON,
\* or that lacks or malforms a request field, is answered 400 at once: no
\* outbound call is made and no file is written before the 400.
C8_MalformedAnswered400 ==
    \A r \in Slots :
        Malformed(r)
        => /\ calls[r] = <<>>
           /\ ~docx[r].saved
           /\ pc[r] = "done" => response[r].status = 400

\* the outcomes of the calls a request has made
Outcomes(r) == [i \in 1..Len(calls[r]) |-> calls[r][i].outcome]

\* C9: under any sequence or interleaving of generate and humanize requests
\* no request changes the registry another resolves against: generate
\* resolves "pro" to its own identifier, humanize to a different one, both
\* resolve "flash" to the low-tier identifier, and a response depends only
\* on the request's body and the outcomes of its own backend calls.
C9_RegistriesIsolated ==
    /\ \A r \in Slots :
          Len(calls[r]) >= 1 =>
              calls[r][1].model =
                  IF ModelKey(r) = JStr("flash") THEN "models/gemini-2.5-flash"
                  ELSE IF request[r].ep = "generate"
                  THEN "models/gemini-3-flash-preview"
                  ELSE "models/gemini-3-pro-preview"
    /\ \A r1, r2 \in Slots :
          ( /\ request[r1] = request[r2]
            /\ pc[r1] = "done" /\ pc[r2] = "done"
            /\ Outcomes(r1) = Outcomes(r2) )
          => response[r1] = response[r2] /\ calls[r1] = calls[r2]

C9_Witness ==
    \E r1, r2 \in Slots :
        /\ request[r1].ep = "generate" /\ ModelKey(r1) = JStr("pro")
        /\ request[r2].ep = "humanize" /\ ModelKey(r2) = JStr("pro")
        /\ pc[r1] = "primary" /\ pc[r2] = "primary"
        /\ calls[r1][1].model = "models/gemini-3-flash-preview"
        /\ calls[r2][1].model = "models/gemini-3-pro-preview"

\* C10: in prepare_docx, for every pair of requested footer alignments,
\* whenever footer2 carries the page number the alignment applied to the
\* footer1 paragraph differs from the one applied to the page-number
\* paragraph.
C10_FootersOnDifferentSides ==
    \A r \in Slots :
        docx[r].footer2 # "none" => docx[r].footer1 # docx[r].footer2

=============================================================================
